---- MODULE Spec2Model ----
(***************************************************************************)
(* Browser front-end scripts of LeeJS_class: the chat page (user.js and    *)
(* its three earlier revisions) and the admin page (admin.js).  A page is  *)
(* a set of DOM fields plus event handlers; every `await` splits a handler *)
(* into the step that issues the request and the step that runs when the   *)
(* response arrives.  Strings are sequences of tokens, so trim(),          *)
(* concatenation and "contains" are computed, not assumed.                 *)
(***************************************************************************)
EXTENDS Integers, Sequences, FiniteSets, TLC

(* ---------------- program constants ---------------- *)
MAX_HISTORY_MESSAGES == 20
maxSize == 4194304

(* ---------------- bounds of the model ---------------- *)
\* handler invocations (clicks, Enter presses, file picks) explored per run
MaxActions == 3
\* the same for the admin page, where a page load that fetches counts as one
MaxAdminActions == 2
\* uploadFiles calls that get past validation per run
MaxUploads == 1
\* completed question/answer exchanges the warm-started chat page begins with
WarmExchanges == 10

(* ---------------- strings ---------------- *)
Truthy(s) == s # <<>>

RECURSIVE TrimStart(_)
TrimStart(s) == IF s # <<>> /\ Head(s) = " " THEN TrimStart(Tail(s)) ELSE s

RECURSIVE TrimEnd(_)
TrimEnd(s) ==
    IF s # <<>> /\ s[Len(s)] = " " THEN TrimEnd(SubSeq(s, 1, Len(s) - 1)) ELSE s

\* faulty variant: the field value is used as typed
Trim_none(s) == s

Trim(s) == TrimEnd(TrimStart(s))

StartsWith(s, prefix) ==
    Len(s) >= Len(prefix) /\ SubSeq(s, 1, Len(prefix)) = prefix

Contains(s, tok) == \E i \in DOMAIN s : s[i] = tok

(* ---------------- values the environment supplies ---------------- *)
PasswordValues == {<<" ", "pw">>}
QuestionValues == {<<" ">>, <<"q", " ">>}
Statuses == {"404", "500"}
NetworkError == <<"Failed to fetch">>
BodyError == <<"body stream error">>
ErrorBody == <<"denied">>

\* What a fetch can come back with: a rejected promise, a non-OK response
\* whose body text can or cannot be read, an OK response whose JSON body
\* can or cannot be used.
Outcomes ==
    {[neterr |-> TRUE, ok |-> FALSE, status |-> "0", readable |-> FALSE, content |-> <<>>]}
    \cup {[neterr |-> FALSE, ok |-> FALSE, status |-> s, readable |-> TRUE, content |-> <<>>] :
            s \in Statuses}
    \cup {[neterr |-> FALSE, ok |-> FALSE, status |-> "500", readable |-> FALSE, content |-> <<>>]}
    \cup {[neterr |-> FALSE, ok |-> TRUE, status |-> "200", readable |-> TRUE, content |-> c] :
            c \in {<<>>, <<"a">>}}
    \cup {[neterr |-> FALSE, ok |-> TRUE, status |-> "200", readable |-> FALSE, content |-> <<>>]}

\* faulty variant: the thrown Error carries the body text without the status
ErrorMessage_noStatus(o) ==
    IF o.neterr THEN NetworkError
    ELSE IF ~o.ok THEN (IF o.readable THEN ErrorBody ELSE BodyError)
    ELSE IF ~o.readable THEN BodyError
    ELSE <<>>

\* error.message in the catch block that follows `await fetch` / `res.text()`
\* / `res.json()`; <<>> when nothing was thrown
ErrorMessage(o) ==
    IF o.neterr THEN NetworkError
    ELSE IF ~o.ok THEN (IF o.readable THEN <<o.status, " ">> \o ErrorBody ELSE BodyError)
    ELSE IF ~o.readable THEN BodyError
    ELSE <<>>

\* faulty variant: res.ok is not looked at
Succeeded_ignoresStatus(o) == ~o.neterr /\ o.readable

Succeeded(o) == ~o.neterr /\ o.ok /\ o.readable

ImageFiles ==
    {[name |-> <<"a.png">>, type |-> <<"image/", "png">>, size |-> 1000],
     [name |-> <<"b.txt">>, type |-> <<"text/", "plain">>, size |-> 1000],
     [name |-> <<"c.png">>, type |-> <<"image/", "png">>, size |-> maxSize + 1]}

VARIABLES
    page,                 \* which script the page runs
    passwordInput,        \* #userPassword value
    questionInput,        \* #question value
    imageFileInput,       \* #imageFile: the picked file's name, <<>> if none
    selectedImageDataUrl,
    selectedImageName,
    conversationHistory,
    isComposing,
    messagesEl,           \* children of #messages, in document order
    answerOutput,         \* #answer text of the earliest revision of the page
    reads,                \* FileReader loads not yet finished
    tokenInput,           \* #adminToken value
    filesInput,           \* #files: the picked files, in selection order
    statusOutput,         \* #status text
    maxAnswerCharsInput,  \* #maxAnswerChars value
    defaultPromptInput,   \* #defaultPrompt value
    loaded,               \* admin.js has run its top-level statements
    uploads,              \* the uploadFiles calls so far, with their locals
    requests,             \* every fetch issued so far; st = "pending" is in flight
    nextId,               \* handler invocations so far
    budget,               \* handler invocations still explored
    last,                 \* what the latest settled fetch came back with
    pushed,               \* every entry ever passed to pushHistory, in call order
    afterPush             \* conversationHistory at each return of pushHistory
                          \* during the latest handler step

vars == <<page, passwordInput, questionInput, imageFileInput, selectedImageDataUrl,
          selectedImageName, conversationHistory, isComposing, messagesEl,
          answerOutput, reads, tokenInput, filesInput, statusOutput,
          maxAnswerCharsInput, defaultPromptInput, loaded, uploads, requests, nextId,
          budget, last, pushed, afterPush>>

(* ---------------- user.js helpers ---------------- *)
Splice0(arr, n) == SubSeq(arr, n + 1, Len(arr))

\* faulty variant: the splice leaves one entry too many
pushHistory_keepOneMore(history, role, content) ==
    LET grown == Append(history, [role |-> role, content |-> content])
    IN  IF Len(grown) > MAX_HISTORY_MESSAGES + 1
        THEN Splice0(grown, Len(grown) - MAX_HISTORY_MESSAGES - 1)
        ELSE grown

\* faulty variant: splice(MAX_HISTORY_MESSAGES) cuts the newest entries, not the oldest
pushHistory_dropNewest(history, role, content) ==
    LET grown == Append(history, [role |-> role, content |-> content])
    IN  IF Len(grown) > MAX_HISTORY_MESSAGES
        THEN SubSeq(grown, 1, MAX_HISTORY_MESSAGES)
        ELSE grown

pushHistory(history, role, content) ==
    LET grown == Append(history, [role |-> role, content |-> content])
    IN  IF Len(grown) > MAX_HISTORY_MESSAGES
        THEN Splice0(grown, Len(grown) - MAX_HISTORY_MESSAGES)
        ELSE grown

Row(kind, text, image, alt, feedback, question, node) ==
    [kind |-> kind, text |-> text, image |-> image, alt |-> alt,
     feedback |-> feedback, question |-> question, node |-> node]

appendUserMessage(rows, text, imageDataUrl, imageName) ==
    Append(rows,
           Row("user", text, imageDataUrl,
               IF Truthy(imageDataUrl)
               THEN (IF Truthy(imageName) THEN imageName ELSE <<"attached image">>)
               ELSE <<>>,
               FALSE, <<>>, 0))

appendBotMessage(rows, text, allowFeedback, question) ==
    Append(rows, Row("bot", text, <<>>, <<>>, allowFeedback, question, 0))

appendTyping(rows, node) ==
    Append(rows, Row("typing", <<"thinking...">>, <<>>, <<>>, FALSE, <<>>, node))

RECURSIVE RemoveNode(_, _)
RemoveNode(rows, node) ==
    IF rows = <<>> THEN <<>>
    ELSE IF Head(rows).kind = "typing" /\ Head(rows).node = node
         THEN Tail(rows)
         ELSE <<Head(rows)>> \o RemoveNode(Tail(rows), node)

\* faulty variant: every typing row is removed, whichever request it belongs to
removeTyping_all(rows, node) == SelectSeq(rows, LAMBDA r : r.kind # "typing")

\* faulty variant: the oldest typing row is removed, whichever request it belongs to
RECURSIVE removeTyping_oldest(_, _)
removeTyping_oldest(rows, node) ==
    IF rows = <<>> THEN <<>>
    ELSE IF Head(rows).kind = "typing" THEN Tail(rows)
    ELSE <<Head(rows)>> \o removeTyping_oldest(Tail(rows), node)

removeTyping(rows, node) == RemoveNode(rows, node)

\* `x || undefined`: JSON.stringify leaves an undefined field out of the body
Undefined == <<"undefined">>
OrUndefined(x) == IF Truthy(x) THEN x ELSE Undefined

PromptPassword == <<"enter the password">>
PromptQuestion == <<"enter a question">>
DescribeImage == <<"Describe this image.">>
NoResponse == <<"No response.">>
FailedPrefix == <<"Failed: ">>

NoOutcome == [neterr |-> FALSE, ok |-> FALSE, status |-> "0", readable |-> FALSE, content |-> <<>>]

\* One fetch call: who issued it, where to, its JSON body, and how it ended.
Request(by, act, url, file, body) ==
    [by |-> by, act |-> act, url |-> url, file |-> file, body |-> body,
     st |-> "pending", out |-> NoOutcome]

Pending(i) == requests[i].st = "pending"

\* a chat-page fetch settles: the log keeps the whole response
Settle(i, o) == [requests EXCEPT ![i].st = "done", ![i].out = o]

\* an admin-page fetch settles: the log keeps only whether fetch resolved OK
Conclude(i, o) ==
    [requests EXCEPT ![i].st = IF o.neterr \/ ~o.ok THEN "failed" ELSE "ok"]

\* `if (!res.ok) { text = await res.text(); throw ... }` with no later body read
ThrownNoBody(o) == o.neterr \/ ~o.ok

chatFields == <<passwordInput, questionInput, imageFileInput, selectedImageDataUrl,
                selectedImageName, isComposing>>
historyVars == <<conversationHistory, pushed, afterPush>>
\* state of the pages this handler does not belong to
adminVars == <<tokenInput, filesInput, statusOutput, maxAnswerCharsInput,
               defaultPromptInput, loaded, uploads>>
elsewhere == <<answerOutput, adminVars>>

(* ---------------- user.js: typing into the fields ---------------- *)
ChatPages == {"user", "part_000", "part_001", "part_002"}
ImagePages == {"user", "part_002"}

TypePassword ==
    /\ page \in ChatPages
    /\ \E v \in PasswordValues : passwordInput' = v
    /\ UNCHANGED <<page, last, questionInput, imageFileInput, selectedImageDataUrl,
                   selectedImageName, isComposing, historyVars, elsewhere, messagesEl, reads,
                   requests, nextId, budget>>

TypeQuestion ==
    /\ page \in ChatPages
    /\ \E v \in QuestionValues : questionInput' = v
    /\ UNCHANGED <<page, last, passwordInput, imageFileInput, selectedImageDataUrl,
                   selectedImageName, isComposing, historyVars, elsewhere, messagesEl, reads,
                   requests, nextId, budget>>

CompositionStart ==
    /\ page = "user"
    /\ isComposing' = TRUE
    /\ UNCHANGED <<page, last, passwordInput, questionInput, imageFileInput,
                   selectedImageDataUrl, selectedImageName, historyVars, elsewhere, messagesEl,
                   reads, requests, nextId, budget>>

CompositionEnd ==
    /\ page = "user"
    /\ isComposing' = FALSE
    /\ UNCHANGED <<page, last, passwordInput, questionInput, imageFileInput,
                   selectedImageDataUrl, selectedImageName, historyVars, elsewhere, messagesEl,
                   reads, requests, nextId, budget>>

(* ---------------- user.js: sendQuestion up to `await fetch` ---------------- *)
\* faulty variant: the attachment is not cleared once it has been sent
sendQuestion_keepsImage ==
    LET password == Trim(passwordInput)
        typedQuestion == Trim(questionInput)
        question == IF Truthy(typedQuestion) THEN typedQuestion
                    ELSE IF Truthy(selectedImageDataUrl) THEN DescribeImage ELSE <<>>
        id == nextId + 1
        typingNode == Len(requests) + 1
    IN  /\ nextId' = id
        /\ budget' = budget - 1
        /\ IF ~Truthy(password)
           THEN /\ messagesEl' = appendBotMessage(messagesEl, PromptPassword, FALSE, <<>>)
                /\ UNCHANGED <<chatFields, requests>>
           ELSE IF ~Truthy(question)
           THEN /\ messagesEl' = appendBotMessage(messagesEl, PromptQuestion, FALSE, <<>>)
                /\ UNCHANGED <<chatFields, requests>>
           ELSE /\ messagesEl' =
                       appendTyping(
                           appendUserMessage(messagesEl, question, selectedImageDataUrl,
                                             selectedImageName),
                           typingNode)
                /\ questionInput' = <<>>
                /\ imageFileInput' = <<>>
                /\ requests' =
                       Append(requests,
                              Request(id, "ask", "/api/chat", 0,
                                      [user |-> question,
                                       imageDataUrl |-> OrUndefined(selectedImageDataUrl),
                                       history |-> conversationHistory]))
                /\ UNCHANGED <<passwordInput, isComposing, selectedImageDataUrl,
                               selectedImageName>>
        /\ UNCHANGED <<page, last, historyVars, elsewhere, reads>>

sendQuestion ==
    LET password == Trim(passwordInput)
        typedQuestion == Trim(questionInput)
        question == IF Truthy(typedQuestion) THEN typedQuestion
                    ELSE IF Truthy(selectedImageDataUrl) THEN DescribeImage ELSE <<>>
        id == nextId + 1
        typingNode == Len(requests) + 1
    IN  /\ nextId' = id
        /\ budget' = budget - 1
        /\ IF ~Truthy(password)
           THEN /\ messagesEl' = appendBotMessage(messagesEl, PromptPassword, FALSE, <<>>)
                /\ UNCHANGED <<chatFields, requests>>
           ELSE IF ~Truthy(question)
           THEN /\ messagesEl' = appendBotMessage(messagesEl, PromptQuestion, FALSE, <<>>)
                /\ UNCHANGED <<chatFields, requests>>
           ELSE /\ messagesEl' =
                       appendTyping(
                           appendUserMessage(messagesEl, question, selectedImageDataUrl,
                                             selectedImageName),
                           typingNode)
                /\ questionInput' = <<>>
                /\ imageFileInput' = <<>>
                /\ selectedImageDataUrl' = <<>>
                /\ selectedImageName' = <<>>
                /\ requests' =
                       Append(requests,
                              Request(id, "ask", "/api/chat", 0,
                                      [user |-> question,
                                       imageDataUrl |-> OrUndefined(selectedImageDataUrl),
                                       history |-> conversationHistory]))
                /\ UNCHANGED <<passwordInput, isComposing>>
        /\ UNCHANGED <<page, last, historyVars, elsewhere, reads>>

AskClick ==
    /\ page = "user"
    /\ budget > 0
    /\ sendQuestion

KeyEvents == [key : {"Enter", "a"}, isComposing : BOOLEAN, keyCode : {13, 229}]

QuestionKeydown ==
    /\ page = "user"
    /\ budget > 0
    /\ \E event \in KeyEvents :
          IF event.key = "Enter" /\ ~isComposing /\ ~event.isComposing
             /\ event.keyCode # 229
          THEN sendQuestion
          ELSE UNCHANGED vars

(* ---------------- user.js: sendQuestion after `await fetch` ---------------- *)
ChatResponse ==
    /\ page = "user"
    /\ \E i \in DOMAIN requests, o \in Outcomes :
          /\ Pending(i)
          /\ last' = o
          /\ requests[i].act = "ask"
          /\ LET question == requests[i].body.user
                 answer == IF Truthy(o.content) THEN o.content ELSE NoResponse
                 h1 == pushHistory(conversationHistory, "user", question)
                 h2 == pushHistory(h1, "assistant", answer)
             IN  /\ requests' = Settle(i, o)
                 /\ IF Succeeded(o)
                    THEN /\ conversationHistory' = h2
                         /\ pushed' = pushed \o <<[role |-> "user", content |-> question],
                                                  [role |-> "assistant", content |-> answer]>>
                         /\ afterPush' = <<h1, h2>>
                         /\ messagesEl' =
                                appendBotMessage(removeTyping(messagesEl, i), answer,
                                                 TRUE, question)
                    ELSE /\ messagesEl' =
                                appendBotMessage(removeTyping(messagesEl, i),
                                                 FailedPrefix \o ErrorMessage(o),
                                                 FALSE, <<>>)
                         /\ UNCHANGED historyVars
    /\ UNCHANGED <<page, chatFields, elsewhere, reads, nextId, budget>>

(* ---------------- user.js: feedback ---------------- *)
PromptFeedbackPassword == <<"enter the password before requesting a correction">>
FeedbackSaved == <<"correction saved">>
FeedbackFailedPrefix == <<"correction not saved: ">>
\* what window.prompt returns: <<>> stands for null (cancelled) and for ""
Corrections == {<<>>, <<" ">>, <<"fix", " ">>}

SubmitFeedback ==
    /\ page = "user"
    /\ budget > 0
    /\ \E k \in DOMAIN messagesEl, entered \in Corrections :
          /\ messagesEl[k].kind = "bot"
          /\ messagesEl[k].feedback
          /\ LET password == Trim(passwordInput)
                 id == nextId + 1
             IN  /\ nextId' = id
                 /\ budget' = budget - 1
                 /\ IF ~Truthy(password)
                    THEN /\ messagesEl' =
                                appendBotMessage(messagesEl, PromptFeedbackPassword,
                                                 FALSE, <<>>)
                         /\ UNCHANGED requests
                    ELSE IF ~Truthy(entered) \/ ~Truthy(Trim(entered))
                    THEN UNCHANGED <<messagesEl, requests>>
                    ELSE /\ requests' =
                                Append(requests,
                                       Request(id, "feedback", "/api/feedback", 0,
                                               [question |-> messagesEl[k].question,
                                                badAnswer |-> messagesEl[k].text,
                                                correction |-> Trim(entered)]))
                         /\ UNCHANGED messagesEl
    /\ UNCHANGED <<page, last, chatFields, historyVars, elsewhere, reads>>

FeedbackResponse ==
    /\ page = "user"
    /\ \E i \in DOMAIN requests, o \in Outcomes :
          /\ Pending(i)
          /\ last' = o
          /\ requests[i].act = "feedback"
          /\ requests' = Settle(i, o)
          /\ messagesEl' =
                IF ThrownNoBody(o)
                THEN appendBotMessage(messagesEl,
                                      FeedbackFailedPrefix \o ErrorMessage(o), FALSE, <<>>)
                ELSE appendBotMessage(messagesEl, FeedbackSaved, FALSE, <<>>)
    /\ UNCHANGED <<page, chatFields, historyVars, elsewhere, reads, nextId, budget>>

(* ---------------- user.js: attaching an image ---------------- *)
ImageFailedPrefix == <<"image failed: ">>
ImageAttachedPrefix == <<"image attached: ">>
NotAnImage == <<"only image files can be uploaded">>
ImageTooLarge == <<"images must be 4MB or smaller">>
ImageUnreadable == <<"cannot read the image">>

\* the synchronous part of fileToDataUrl: the message it throws, <<>> if none
fileToDataUrlThrows(file) ==
    IF ~StartsWith(file.type, <<"image/">>) THEN NotAnImage
    ELSE IF file.size > maxSize THEN ImageTooLarge
    ELSE <<>>

ImageChange ==
    /\ page \in ImagePages
    /\ budget > 0
    /\ \E file \in ImageFiles :
          /\ imageFileInput' = file.name
          /\ nextId' = nextId + 1
          /\ budget' = budget - 1
          /\ IF Truthy(fileToDataUrlThrows(file))
             THEN /\ selectedImageDataUrl' = <<>>
                  /\ selectedImageName' = <<>>
                  /\ messagesEl' =
                         appendBotMessage(messagesEl,
                                          ImageFailedPrefix \o fileToDataUrlThrows(file),
                                          FALSE, <<>>)
                  /\ UNCHANGED reads
             ELSE /\ reads' = Append(reads, file)
                  /\ UNCHANGED <<selectedImageDataUrl, selectedImageName, messagesEl>>
    /\ UNCHANGED <<page, last, passwordInput, questionInput, isComposing, historyVars, elsewhere,
                   requests>>

ImageRead ==
    /\ page \in ImagePages
    /\ \E k \in DOMAIN reads, onload \in BOOLEAN :
          /\ reads' = SubSeq(reads, 1, k - 1) \o SubSeq(reads, k + 1, Len(reads))
          /\ IF onload
             THEN /\ selectedImageDataUrl' = <<"data:">> \o reads[k].name
                  /\ selectedImageName' = reads[k].name
                  /\ messagesEl' =
                         appendBotMessage(messagesEl, ImageAttachedPrefix \o reads[k].name,
                                          FALSE, <<>>)
             ELSE /\ selectedImageDataUrl' = <<>>
                  /\ selectedImageName' = <<>>
                  /\ messagesEl' =
                         appendBotMessage(messagesEl, ImageFailedPrefix \o ImageUnreadable,
                                          FALSE, <<>>)
    /\ UNCHANGED <<page, last, passwordInput, questionInput, imageFileInput, isComposing,
                   historyVars, elsewhere, requests, nextId, budget>>

NextUser ==
    \/ TypePassword
    \/ TypeQuestion
    \/ CompositionStart
    \/ CompositionEnd
    \/ AskClick
    \/ QuestionKeydown
    \/ ChatResponse
    \/ SubmitFeedback
    \/ FeedbackResponse
    \/ ImageChange
    \/ ImageRead

InitPage(p) ==
    /\ page = p
    /\ passwordInput = <<>>
    /\ questionInput = <<>>
    /\ imageFileInput = <<>>
    /\ selectedImageDataUrl = <<>>
    /\ selectedImageName = <<>>
    /\ conversationHistory = <<>>
    /\ isComposing = FALSE
    /\ messagesEl = <<>>
    /\ answerOutput = <<>>
    /\ reads = <<>>
    /\ tokenInput \in (IF p = "admin" THEN {<<>>, <<"tok", " ">>} ELSE {<<>>})
    /\ filesInput = <<>>
    /\ statusOutput = <<>>
    /\ maxAnswerCharsInput = <<>>
    /\ defaultPromptInput = <<>>
    /\ loaded = FALSE
    /\ uploads = <<>>
    /\ last = NoOutcome
    /\ requests = <<>>
    /\ nextId = 0
    /\ budget = IF p = "admin" THEN MaxAdminActions ELSE MaxActions
    /\ pushed = <<>>
    /\ afterPush = <<>>

InitUser == InitPage("user")

SpecUser == InitUser /\ [][NextUser]_vars

(* ---------------- the chat page after earlier exchanges ---------------- *)
\* The i-th earlier exchange: the password is typed once, then question i is
\* typed, Ask is clicked and the answer arrives before the next question.
WarmPassword == <<" ", "pw">>
WarmQuestion(i) == <<"q", ToString(i)>>
WarmAnswer(i) == <<"a", ToString(i)>>
WarmOutcome(i) ==
    [neterr |-> FALSE, ok |-> TRUE, status |-> "200", readable |-> TRUE,
     content |-> WarmAnswer(i)]

RECURSIVE WarmHistory(_)
WarmHistory(k) ==
    IF k = 0 THEN <<>>
    ELSE pushHistory(pushHistory(WarmHistory(k - 1), "user", WarmQuestion(k)),
                     "assistant", WarmAnswer(k))

RECURSIVE WarmPushed(_)
WarmPushed(k) ==
    IF k = 0 THEN <<>>
    ELSE WarmPushed(k - 1) \o <<[role |-> "user", content |-> WarmQuestion(k)],
                                [role |-> "assistant", content |-> WarmAnswer(k)]>>

RECURSIVE WarmRows(_)
WarmRows(k) ==
    IF k = 0 THEN <<>>
    ELSE appendBotMessage(
             removeTyping(
                 appendTyping(appendUserMessage(WarmRows(k - 1), WarmQuestion(k), <<>>, <<>>),
                              k),
                 k),
             WarmAnswer(k), TRUE, WarmQuestion(k))

WarmRequests(k) ==
    [i \in 1..k |->
        [Request(i, "ask", "/api/chat", 0,
                 [user |-> WarmQuestion(i), imageDataUrl |-> Undefined,
                  history |-> WarmHistory(i - 1)])
         EXCEPT !.st = "done", !.out = WarmOutcome(i)]]

InitWarm ==
    /\ page = "user"
    /\ passwordInput = WarmPassword
    /\ questionInput = <<>>
    /\ imageFileInput = <<>>
    /\ selectedImageDataUrl = <<>>
    /\ selectedImageName = <<>>
    /\ isComposing = FALSE
    /\ answerOutput = <<>>
    /\ reads = <<>>
    /\ tokenInput = <<>>
    /\ filesInput = <<>>
    /\ statusOutput = <<>>
    /\ maxAnswerCharsInput = <<>>
    /\ defaultPromptInput = <<>>
    /\ loaded = FALSE
    /\ uploads = <<>>
    /\ budget = MaxActions
    /\ \E k \in {WarmExchanges - 1, WarmExchanges} :
          /\ conversationHistory = WarmHistory(k)
          /\ pushed = WarmPushed(k)
          /\ afterPush = <<pushHistory(WarmHistory(k - 1), "user", WarmQuestion(k)),
                           WarmHistory(k)>>
          /\ messagesEl = WarmRows(k)
          /\ requests = WarmRequests(k)
          /\ last = WarmOutcome(k)
          /\ nextId = k

NextAsk ==
    \/ TypePassword
    \/ TypeQuestion
    \/ CompositionStart
    \/ CompositionEnd
    \/ AskClick
    \/ QuestionKeydown
    \/ ChatResponse
    \/ ImageChange
    \/ ImageRead

SpecWarm == InitWarm /\ [][NextAsk]_vars

(* ---------------- part_000: chat page without image or history ---------------- *)
sendQuestion0 ==
    LET password == Trim(passwordInput)
        question == Trim(questionInput)
        id == nextId + 1
        typingNode == Len(requests) + 1
    IN  /\ nextId' = id
        /\ budget' = budget - 1
        /\ IF ~Truthy(password)
           THEN /\ messagesEl' = appendBotMessage(messagesEl, PromptPassword, FALSE, <<>>)
                /\ UNCHANGED <<questionInput, requests>>
           ELSE IF ~Truthy(question)
           THEN /\ messagesEl' = appendBotMessage(messagesEl, PromptQuestion, FALSE, <<>>)
                /\ UNCHANGED <<questionInput, requests>>
           ELSE /\ messagesEl' =
                       appendTyping(appendUserMessage(messagesEl, question, <<>>, <<>>),
                                    typingNode)
                /\ questionInput' = <<>>
                /\ requests' =
                       Append(requests,
                              Request(id, "ask", "/api/chat", 0, [user |-> question]))
        /\ UNCHANGED <<page, last, passwordInput, imageFileInput, selectedImageDataUrl,
                       selectedImageName, isComposing, historyVars, elsewhere, reads>>

AskClick0 ==
    /\ page = "part_000"
    /\ budget > 0
    /\ sendQuestion0

QuestionKeydown0 ==
    /\ page = "part_000"
    /\ budget > 0
    /\ \E key \in {"Enter", "a"} :
          IF key = "Enter" THEN sendQuestion0 ELSE UNCHANGED vars

\* the response step shared by part_000 and part_002, whose code after
\* `await fetch` is the same
legacyResponse(i, o) ==
    LET answer == IF Truthy(o.content) THEN o.content ELSE NoResponse
    IN  /\ requests' = Settle(i, o)
        /\ messagesEl' =
               IF Succeeded(o)
               THEN appendBotMessage(removeTyping(messagesEl, i), answer, FALSE, <<>>)
               ELSE appendBotMessage(removeTyping(messagesEl, i),
                                     FailedPrefix \o ErrorMessage(o), FALSE, <<>>)
        /\ UNCHANGED <<page, chatFields, historyVars, elsewhere, reads, nextId, budget>>

ChatResponse0 ==
    /\ page = "part_000"
    /\ \E i \in DOMAIN requests, o \in Outcomes :
          /\ Pending(i)
          /\ last' = o
          /\ legacyResponse(i, o)

(* ---------------- part_002: chat page with image, without history ---------------- *)
sendQuestion2 ==
    LET password == Trim(passwordInput)
        typedQuestion == Trim(questionInput)
        question == IF Truthy(typedQuestion) THEN typedQuestion
                    ELSE IF Truthy(selectedImageDataUrl) THEN DescribeImage ELSE <<>>
        id == nextId + 1
        typingNode == Len(requests) + 1
    IN  /\ nextId' = id
        /\ budget' = budget - 1
        /\ IF ~Truthy(password)
           THEN /\ messagesEl' = appendBotMessage(messagesEl, PromptPassword, FALSE, <<>>)
                /\ UNCHANGED <<chatFields, requests>>
           ELSE IF ~Truthy(question)
           THEN /\ messagesEl' = appendBotMessage(messagesEl, PromptQuestion, FALSE, <<>>)
                /\ UNCHANGED <<chatFields, requests>>
           ELSE /\ messagesEl' =
                       appendTyping(
                           appendUserMessage(messagesEl, question, selectedImageDataUrl,
                                             selectedImageName),
                           typingNode)
                /\ questionInput' = <<>>
                /\ imageFileInput' = <<>>
                /\ selectedImageDataUrl' = <<>>
                /\ selectedImageName' = <<>>
                /\ requests' =
                       Append(requests,
                              Request(id, "ask", "/api/chat", 0,
                                      [user |-> question,
                                       imageDataUrl |-> OrUndefined(selectedImageDataUrl)]))
                /\ UNCHANGED <<passwordInput, isComposing>>
        /\ UNCHANGED <<page, last, historyVars, elsewhere, reads>>

AskClick2 ==
    /\ page = "part_002"
    /\ budget > 0
    /\ sendQuestion2

QuestionKeydown2 ==
    /\ page = "part_002"
    /\ budget > 0
    /\ \E key \in {"Enter", "a"} :
          IF key = "Enter" THEN sendQuestion2 ELSE UNCHANGED vars

ChatResponse2 ==
    /\ page = "part_002"
    /\ \E i \in DOMAIN requests, o \in Outcomes :
          /\ Pending(i)
          /\ last' = o
          /\ legacyResponse(i, o)

(* ---------------- part_001: chat page with a single answer box ---------------- *)
Thinking == <<"Thinking...">>

AskClick1 ==
    /\ page = "part_001"
    /\ budget > 0
    /\ LET password == Trim(passwordInput)
           question == Trim(questionInput)
           id == nextId + 1
       IN  /\ nextId' = id
           /\ budget' = budget - 1
           /\ IF ~Truthy(password)
              THEN /\ answerOutput' = PromptPassword
                   /\ UNCHANGED requests
              ELSE IF ~Truthy(question)
              THEN /\ answerOutput' = PromptQuestion
                   /\ UNCHANGED requests
              ELSE /\ answerOutput' = Thinking
                   /\ requests' =
                          Append(requests,
                                 Request(id, "ask", "/api/chat", 0, [user |-> question]))
    /\ UNCHANGED <<page, last, chatFields, historyVars, messagesEl, reads, adminVars>>

ChatResponse1 ==
    /\ page = "part_001"
    /\ \E i \in DOMAIN requests, o \in Outcomes :
          /\ Pending(i)
          /\ last' = o
          /\ requests' = Settle(i, o)
          /\ answerOutput' =
                IF Succeeded(o)
                THEN (IF Truthy(o.content) THEN o.content ELSE NoResponse)
                ELSE FailedPrefix \o ErrorMessage(o)
    /\ UNCHANGED <<page, chatFields, historyVars, messagesEl, reads, adminVars, nextId,
                   budget>>

NextLegacy ==
    \/ AskClick0
    \/ QuestionKeydown0
    \/ ChatResponse0
    \/ AskClick2
    \/ QuestionKeydown2
    \/ ChatResponse2
    \/ AskClick1
    \/ ChatResponse1

(* ---------------- admin.js ---------------- *)
MaxAnswerCharsLimit == 20000

TokenValues == {<<>>, <<"tok", " ">>}
FilePicks == {<<"f1">>, <<"f1", "f2">>}
LimitValues == {<<"20001">>}
PromptValues == {<<"be brief", " ">>}

\* what the admin endpoints come back with
AdminOutcomes ==
    {o \in Outcomes : o.status # "404" /\ (o.ok /\ o.readable => o.content # <<>>)}
BinaryOutcomes == {o \in Outcomes : o.readable = o.ok /\ o.content = <<>>}
FallbackOutcomes ==
    {o \in Outcomes : /\ o.ok => (o.readable /\ o.content = <<>>)
                      /\ o.status = "500" => ~o.readable}

PromptTokenRefresh == <<"enter the admin token, then press Refresh">>
PromptTokenFirst == <<"enter the admin token first">>
PromptPickFiles == <<"pick the files to upload">>
PromptPromptText == <<"enter a prompt">>
LimitInvalid == <<"MAX_ANSWER_CHARS must be an integer 0..20000">>
PromptUpdated == <<"Default prompt updated.">>
DownloadDone == <<"feedback.jsonl downloaded">>
DownloadFailedPrefix == <<"download failed: ">>
FileUnreadable == <<"file could not be read">>

chatVars == <<passwordInput, questionInput, imageFileInput, selectedImageDataUrl,
              selectedImageName, conversationHistory, isComposing, messagesEl,
              answerOutput, reads, pushed, afterPush>>

\* Number(s) for the values the limit field takes
NumberOf(s) ==
    CASE s = <<>> -> [isInteger |-> TRUE, value |-> 0]
      [] s = <<"0">> -> [isInteger |-> TRUE, value |-> 0]
      [] s = <<"100">> -> [isInteger |-> TRUE, value |-> 100]
      [] s = <<"20001">> -> [isInteger |-> TRUE, value |-> 20001]
      [] OTHER -> [isInteger |-> FALSE, value |-> 0]

TypeToken ==
    /\ page = "admin"
    /\ loaded
    /\ \E v \in TokenValues : tokenInput' = v
    /\ UNCHANGED <<page, last, chatVars, filesInput, statusOutput, maxAnswerCharsInput,
                   defaultPromptInput, loaded, uploads, requests, nextId, budget>>

\* loadStatus up to `await fetch`: the request it adds and the text it shows
loadStatusRequests(reqs, by, act) ==
    IF Truthy(Trim(tokenInput))
    THEN Append(reqs, Request(by, act, "/api/admin/kb-status", 0,
                              [token |-> Trim(tokenInput)]))
    ELSE reqs

loadStatusShows(shown) ==
    IF Truthy(Trim(tokenInput)) THEN shown ELSE PromptTokenRefresh

\* loadConfig up to `await fetch`
loadConfigRequests(reqs, by, act) ==
    IF Truthy(Trim(tokenInput))
    THEN Append(reqs, Request(by, act, "/api/admin/config", 0,
                              [token |-> Trim(tokenInput)]))
    ELSE reqs

\* the two calls at the end of the script's top level
AdminLoad ==
    /\ page = "admin"
    /\ ~loaded
    /\ loaded' = TRUE
    /\ statusOutput' = loadStatusShows(statusOutput)
    /\ requests' = loadConfigRequests(loadStatusRequests(requests, 0, "load"), 0, "load")
    /\ budget' = IF Truthy(Trim(tokenInput)) THEN budget - 1 ELSE budget
    /\ UNCHANGED <<page, last, chatVars, tokenInput, filesInput, maxAnswerCharsInput,
                   defaultPromptInput, uploads, nextId>>

RefreshClick ==
    /\ page = "admin"
    /\ loaded
    /\ budget > 0
    /\ nextId' = nextId + 1
    /\ budget' = budget - 1
    /\ statusOutput' = loadStatusShows(statusOutput)
    /\ requests' = loadStatusRequests(requests, nextId + 1, "refresh")
    /\ UNCHANGED <<page, last, chatVars, tokenInput, filesInput, maxAnswerCharsInput,
                   defaultPromptInput, loaded, uploads>>

RECURSIVE JoinFailures(_)
JoinFailures(failures) ==
    IF failures = <<>> THEN <<>>
    ELSE <<"\n- ">> \o Head(failures) \o JoinFailures(Tail(failures))

\* the text uploadFiles appends after its closing loadStatus
Summary(run) ==
    IF run.failures # <<>>
    THEN <<"\n\nUploaded: ", ToString(run.done), "/", ToString(Len(run.files)),
           "\nFailed:">> \o JoinFailures(run.failures)
    ELSE <<>>

StatusText(o) == <<"Chunks: ">> \o o.content

RunOf(id) == CHOOSE u \in DOMAIN uploads : uploads[u].id = id

\* loadStatus after `await fetch`, and the tail of uploadFiles when the call
\* was the one that ends an upload
StatusResponse ==
    /\ page = "admin"
    /\ \E i \in DOMAIN requests, o \in AdminOutcomes :
          /\ Pending(i)
          /\ last' = o
          /\ requests[i].url = "/api/admin/kb-status"
          /\ requests' = Conclude(i, o)
          /\ LET shown == IF Succeeded(o) THEN StatusText(o)
                          ELSE FailedPrefix \o ErrorMessage(o)
             IN  IF requests[i].act = "upload"
                 THEN /\ statusOutput' = shown \o Summary(uploads[RunOf(requests[i].by)])
                      /\ uploads' = [uploads EXCEPT ![RunOf(requests[i].by)].pc = "finished"]
                 ELSE /\ statusOutput' = shown
                      /\ UNCHANGED uploads
    /\ UNCHANGED <<page, chatVars, tokenInput, filesInput, maxAnswerCharsInput,
                   defaultPromptInput, loaded, nextId, budget>>

\* loadConfig after `await fetch`
ConfigResponse ==
    /\ page = "admin"
    /\ \E i \in DOMAIN requests, o \in AdminOutcomes :
          /\ Pending(i)
          /\ last' = o
          /\ requests[i].url = "/api/admin/config"
          /\ requests[i].act = "load"
          /\ requests' = Conclude(i, o)
          /\ IF Succeeded(o)
             THEN /\ maxAnswerCharsInput' = <<"100">>
                  /\ defaultPromptInput' = o.content
             ELSE UNCHANGED <<maxAnswerCharsInput, defaultPromptInput>>
    /\ UNCHANGED <<page, chatVars, tokenInput, filesInput, statusOutput, loaded, uploads,
                   nextId, budget>>

(* ---------------- admin.js: uploadFiles and uploadSingleFile ---------------- *)
BinaryRequest(run, i) ==
    Request(run.id, "upload", "/api/admin/upload-binary", i,
            [token |-> run.token, filename |-> run.files[i]])

FallbackRequest(run, i) ==
    Request(run.id, "upload", "/api/admin/upload", i,
            [token |-> run.token, filename |-> run.files[i]])

\* faulty variant: the binary requests of all files are issued at once
UploadClick_parallel ==
    /\ page = "admin"
    /\ loaded
    /\ budget > 0
    /\ Len(uploads) < MaxUploads
    /\ nextId' = nextId + 1
    /\ budget' = budget - 1
    /\ \E picked \in FilePicks \cup {filesInput} : filesInput' = picked
    /\ LET token == Trim(tokenInput)
           files == filesInput'
           run == [id |-> nextId + 1, token |-> token, files |-> files, i |-> 1,
                   pc |-> "binary", done |-> 0, failures |-> <<>>]
       IN  IF ~Truthy(token)
           THEN /\ statusOutput' = PromptTokenFirst
                /\ UNCHANGED <<uploads, requests>>
           ELSE IF Len(files) = 0
           THEN /\ statusOutput' = PromptPickFiles
                /\ UNCHANGED <<uploads, requests>>
           ELSE /\ statusOutput' = <<"Uploading ", ToString(Len(files)), " file(s)...">>
                /\ uploads' = Append(uploads, run)
                /\ requests' = requests \o [i \in 1..Len(files) |-> BinaryRequest(run, i)]
    /\ UNCHANGED <<page, last, chatVars, tokenInput, maxAnswerCharsInput,
                   defaultPromptInput, loaded>>

UploadClick ==
    /\ page = "admin"
    /\ loaded
    /\ budget > 0
    /\ Len(uploads) < MaxUploads
    /\ nextId' = nextId + 1
    /\ budget' = budget - 1
    /\ \E picked \in FilePicks \cup {filesInput} : filesInput' = picked
    /\ LET token == Trim(tokenInput)
           files == filesInput'
           run == [id |-> nextId + 1, token |-> token, files |-> files, i |-> 1,
                   pc |-> "binary", done |-> 0, failures |-> <<>>]
       IN  IF ~Truthy(token)
           THEN /\ statusOutput' = PromptTokenFirst
                /\ UNCHANGED <<uploads, requests>>
           ELSE IF Len(files) = 0
           THEN /\ statusOutput' = PromptPickFiles
                /\ UNCHANGED <<uploads, requests>>
           ELSE /\ statusOutput' = <<"Uploading ", ToString(Len(files)), " file(s)...">>
                /\ uploads' = Append(uploads, run)
                /\ requests' = Append(requests, BinaryRequest(run, 1))
    /\ UNCHANGED <<page, last, chatVars, tokenInput, maxAnswerCharsInput,
                   defaultPromptInput, loaded>>

\* faulty variant: the loop is left at the first file that failed
fileDone_stopOnFailure(u, run, reqs) ==
    IF run.i < Len(run.files) /\ run.failures = <<>>
    THEN /\ uploads' = [uploads EXCEPT ![u] = [run EXCEPT !.i = run.i + 1, !.pc = "binary"]]
         /\ requests' = Append(reqs, BinaryRequest(run, run.i + 1))
         /\ UNCHANGED <<filesInput, statusOutput>>
    ELSE /\ filesInput' = <<>>
         /\ requests' = loadStatusRequests(reqs, run.id, "upload")
         /\ IF Truthy(Trim(tokenInput))
            THEN /\ uploads' = [uploads EXCEPT ![u] = [run EXCEPT !.pc = "status"]]
                 /\ UNCHANGED statusOutput
            ELSE /\ uploads' = [uploads EXCEPT ![u] = [run EXCEPT !.pc = "finished"]]
                 /\ statusOutput' = loadStatusShows(statusOutput) \o Summary(run)

\* uploadFiles from the end of one uploadSingleFile call to the next await:
\* the next file's binary request, or the closing loadStatus and summary
fileDone(u, run, reqs) ==
    IF run.i < Len(run.files)
    THEN /\ uploads' = [uploads EXCEPT ![u] = [run EXCEPT !.i = run.i + 1, !.pc = "binary"]]
         /\ requests' = Append(reqs, BinaryRequest(run, run.i + 1))
         /\ UNCHANGED <<filesInput, statusOutput>>
    ELSE /\ filesInput' = <<>>
         /\ requests' = loadStatusRequests(reqs, run.id, "upload")
         /\ IF Truthy(Trim(tokenInput))
            THEN /\ uploads' = [uploads EXCEPT ![u] = [run EXCEPT !.pc = "status"]]
                 /\ UNCHANGED statusOutput
            ELSE /\ uploads' = [uploads EXCEPT ![u] = [run EXCEPT !.pc = "finished"]]
                 /\ statusOutput' = loadStatusShows(statusOutput) \o Summary(run)

Succeed(run) == [run EXCEPT !.done = run.done + 1]

Fail(run, message) ==
    [run EXCEPT !.failures = Append(run.failures, <<run.files[run.i], ": ">> \o message)]

\* faulty variant: the base64 path runs whether or not the binary attempt threw
BinaryResponse_finally ==
    /\ page = "admin"
    /\ \E i \in DOMAIN requests, o \in BinaryOutcomes :
          /\ Pending(i)
          /\ last' = o
          /\ requests[i].url = "/api/admin/upload-binary"
          /\ uploads' = [uploads EXCEPT ![RunOf(requests[i].by)].pc = "base64"]
          /\ requests' = Conclude(i, o)
          /\ UNCHANGED <<filesInput, statusOutput>>
    /\ UNCHANGED <<page, chatVars, tokenInput, maxAnswerCharsInput, defaultPromptInput,
                   loaded, nextId, budget>>

\* uploadSingleFile after the binary `await fetch`
BinaryResponse ==
    /\ page = "admin"
    /\ \E i \in DOMAIN requests, o \in BinaryOutcomes :
          /\ Pending(i)
          /\ last' = o
          /\ requests[i].url = "/api/admin/upload-binary"
          /\ LET u == RunOf(requests[i].by)
             IN  IF ThrownNoBody(o)
                 THEN /\ uploads' = [uploads EXCEPT ![u].pc = "base64"]
                      /\ requests' = Conclude(i, o)
                      /\ UNCHANGED <<filesInput, statusOutput>>
                 ELSE fileDone(u, Succeed(uploads[u]), Conclude(i, o))
    /\ UNCHANGED <<page, chatVars, tokenInput, maxAnswerCharsInput, defaultPromptInput,
                   loaded, nextId, budget>>

\* uploadSingleFile after `await fileToBase64(file)`
Base64Done ==
    /\ page = "admin"
    /\ \E u \in DOMAIN uploads, readable \in BOOLEAN :
          /\ uploads[u].pc = "base64"
          /\ IF readable
             THEN /\ uploads' = [uploads EXCEPT ![u].pc = "fallback"]
                  /\ requests' = Append(requests, FallbackRequest(uploads[u], uploads[u].i))
                  /\ UNCHANGED <<filesInput, statusOutput>>
             ELSE fileDone(u, Fail(uploads[u], FileUnreadable), requests)
    /\ UNCHANGED <<page, last, chatVars, tokenInput, maxAnswerCharsInput, defaultPromptInput,
                   loaded, nextId, budget>>

\* faulty variant: a failed base64 request is sent once more
FallbackResponse_retry ==
    /\ page = "admin"
    /\ \E i \in DOMAIN requests, o \in FallbackOutcomes :
          /\ Pending(i)
          /\ last' = o
          /\ requests[i].url = "/api/admin/upload"
          /\ LET u == RunOf(requests[i].by)
                 again == Cardinality({j \in DOMAIN requests :
                                         /\ requests[j].url = "/api/admin/upload"
                                         /\ requests[j].by = requests[i].by
                                         /\ requests[j].file = requests[i].file}) < 2
             IN  IF ThrownNoBody(o) /\ again
                 THEN /\ requests' = Append(Conclude(i, o),
                                            FallbackRequest(uploads[u], uploads[u].i))
                      /\ UNCHANGED <<uploads, filesInput, statusOutput>>
                 ELSE IF ThrownNoBody(o)
                 THEN fileDone(u, Fail(uploads[u], ErrorMessage(o)), Conclude(i, o))
                 ELSE fileDone(u, Succeed(uploads[u]), Conclude(i, o))
    /\ UNCHANGED <<page, chatVars, tokenInput, maxAnswerCharsInput, defaultPromptInput,
                   loaded, nextId, budget>>

\* uploadSingleFile after the base64 `await fetch`
FallbackResponse ==
    /\ page = "admin"
    /\ \E i \in DOMAIN requests, o \in FallbackOutcomes :
          /\ Pending(i)
          /\ last' = o
          /\ requests[i].url = "/api/admin/upload"
          /\ LET u == RunOf(requests[i].by)
             IN  IF ThrownNoBody(o)
                 THEN fileDone(u, Fail(uploads[u], ErrorMessage(o)), Conclude(i, o))
                 ELSE fileDone(u, Succeed(uploads[u]), Conclude(i, o))
    /\ UNCHANGED <<page, chatVars, tokenInput, maxAnswerCharsInput, defaultPromptInput,
                   loaded, nextId, budget>>

(* ---------------- admin.js: saveLimit, savePrompt, downloadFeedback ---------------- *)
SaveLimitClick ==
    /\ page = "admin"
    /\ loaded
    /\ budget > 0
    /\ nextId' = nextId + 1
    /\ budget' = budget - 1
    /\ \E typed \in LimitValues \cup {maxAnswerCharsInput} : maxAnswerCharsInput' = typed
    /\ LET token == Trim(tokenInput)
           value == NumberOf(maxAnswerCharsInput')
       IN  IF ~Truthy(token)
           THEN /\ statusOutput' = PromptTokenFirst
                /\ UNCHANGED requests
           ELSE IF ~value.isInteger \/ value.value < 0 \/ value.value > MaxAnswerCharsLimit
           THEN /\ statusOutput' = LimitInvalid
                /\ UNCHANGED requests
           ELSE /\ requests' =
                       Append(requests,
                              Request(nextId + 1, "saveLimit", "/api/admin/config", 0,
                                      [token |-> token, maxAnswerChars |-> value.value]))
                /\ UNCHANGED statusOutput
    /\ UNCHANGED <<page, last, chatVars, tokenInput, filesInput, defaultPromptInput, loaded,
                   uploads>>

SaveLimitResponse ==
    /\ page = "admin"
    /\ \E i \in DOMAIN requests, o \in AdminOutcomes :
          /\ Pending(i)
          /\ last' = o
          /\ requests[i].act = "saveLimit"
          /\ requests' = Conclude(i, o)
          /\ statusOutput' =
                IF Succeeded(o)
                THEN <<"MAX_ANSWER_CHARS updated: ">> \o o.content
                ELSE FailedPrefix \o ErrorMessage(o)
    /\ UNCHANGED <<page, chatVars, tokenInput, filesInput, maxAnswerCharsInput,
                   defaultPromptInput, loaded, uploads, nextId, budget>>

SavePromptClick ==
    /\ page = "admin"
    /\ loaded
    /\ budget > 0
    /\ nextId' = nextId + 1
    /\ budget' = budget - 1
    /\ \E typed \in PromptValues \cup {defaultPromptInput} : defaultPromptInput' = typed
    /\ LET token == Trim(tokenInput)
           prompt == Trim(defaultPromptInput')
       IN  IF ~Truthy(token)
           THEN /\ statusOutput' = PromptTokenFirst
                /\ UNCHANGED requests
           ELSE IF ~Truthy(prompt)
           THEN /\ statusOutput' = PromptPromptText
                /\ UNCHANGED requests
           ELSE /\ requests' =
                       Append(requests,
                              Request(nextId + 1, "savePrompt", "/api/admin/config", 0,
                                      [token |-> token, defaultPrompt |-> prompt]))
                /\ UNCHANGED statusOutput
    /\ UNCHANGED <<page, last, chatVars, tokenInput, filesInput, maxAnswerCharsInput, loaded,
                   uploads>>

SavePromptResponse ==
    /\ page = "admin"
    /\ \E i \in DOMAIN requests, o \in AdminOutcomes :
          /\ Pending(i)
          /\ last' = o
          /\ requests[i].act = "savePrompt"
          /\ requests' = Conclude(i, o)
          /\ statusOutput' =
                IF ThrownNoBody(o) THEN FailedPrefix \o ErrorMessage(o) ELSE PromptUpdated
    /\ UNCHANGED <<page, chatVars, tokenInput, filesInput, maxAnswerCharsInput,
                   defaultPromptInput, loaded, uploads, nextId, budget>>

DownloadClick ==
    /\ page = "admin"
    /\ loaded
    /\ budget > 0
    /\ nextId' = nextId + 1
    /\ budget' = budget - 1
    /\ IF ~Truthy(Trim(tokenInput))
       THEN /\ statusOutput' = PromptTokenFirst
            /\ UNCHANGED requests
       ELSE /\ requests' =
                   Append(requests,
                          Request(nextId + 1, "download", "/api/admin/feedback-download", 0,
                                  [token |-> Trim(tokenInput)]))
            /\ UNCHANGED statusOutput
    /\ UNCHANGED <<page, last, chatVars, tokenInput, filesInput, maxAnswerCharsInput,
                   defaultPromptInput, loaded, uploads>>

DownloadResponse ==
    /\ page = "admin"
    /\ \E i \in DOMAIN requests, o \in AdminOutcomes :
          /\ Pending(i)
          /\ last' = o
          /\ requests[i].act = "download"
          /\ requests' = Conclude(i, o)
          /\ statusOutput' =
                IF Succeeded(o) THEN DownloadDone
                ELSE DownloadFailedPrefix \o ErrorMessage(o)
    /\ UNCHANGED <<page, chatVars, tokenInput, filesInput, maxAnswerCharsInput,
                   defaultPromptInput, loaded, uploads, nextId, budget>>

NextAdmin ==
    \/ TypeToken
    \/ AdminLoad
    \/ RefreshClick
    \/ StatusResponse
    \/ ConfigResponse
    \/ UploadClick
    \/ BinaryResponse
    \/ Base64Done
    \/ FallbackResponse
    \/ SaveLimitClick
    \/ SaveLimitResponse
    \/ SavePromptClick
    \/ SavePromptResponse
    \/ DownloadClick
    \/ DownloadResponse

\* the admin page as the script starts: the token field may hold a value the
\* browser restored
InitAdmin ==
    /\ InitPage("admin")

SpecAdmin == InitAdmin /\ [][NextAdmin]_vars

(* ---------------- every page ---------------- *)
Pages == ChatPages \cup {"admin"}

Init == \E p \in Pages : InitPage(p)

Next == NextUser \/ NextLegacy \/ NextAdmin

Spec == Init /\ [][Next]_vars

(* ---------------- claims about the conversation history ---------------- *)
\* a field value that is empty after trimming
Blank(s) == \A i \in DOMAIN s : s[i] = " "

LastN(seq, n) == SubSeq(seq, Len(seq) - n + 1, Len(seq))

Min(a, b) == IF a < b THEN a ELSE b

\* C1: whenever pushHistory has returned, the conversation history holds at
\* most MAX_HISTORY_MESSAGES (20) entries.
C1_HistoryCapped ==
    /\ Len(conversationHistory) <= MAX_HISTORY_MESSAGES
    /\ \A j \in DOMAIN afterPush : Len(afterPush[j]) <= MAX_HISTORY_MESSAGES

\* C1 witness: a push that had to evict has returned, at the cap.
C1_Witness ==
    /\ Len(pushed) > MAX_HISTORY_MESSAGES
    /\ Len(conversationHistory) = MAX_HISTORY_MESSAGES
    /\ \E i \in DOMAIN requests : requests[i].st = "done" /\ requests[i].out.neterr
    /\ Cardinality({i \in DOMAIN requests : Pending(i)}) >= 1

\* C2: after n calls of pushHistory the history is exactly the last
\* min(n, 20) pushed entries in push order; this holds at the return of
\* every call, so entries leave only from the front.
C2_LastPushedInOrder ==
    /\ conversationHistory = LastN(pushed, Min(Len(pushed), MAX_HISTORY_MESSAGES))
    /\ \A j \in DOMAIN afterPush :
          LET n == Len(pushed) - (Len(afterPush) - j)
          IN  afterPush[j] = LastN(SubSeq(pushed, 1, n), Min(n, MAX_HISTORY_MESSAGES))

\* C2 witness: entries were evicted and the survivors are not all alike.
C2_Witness ==
    /\ Len(pushed) > MAX_HISTORY_MESSAGES
    /\ conversationHistory[1] # pushed[1]
    /\ conversationHistory[Len(conversationHistory)].content = NoResponse

(* ---------------- claims about validation ---------------- *)
\* one run of sendQuestion (or of the click handler of part_001) up to its
\* first await, on whichever page is loaded
AskStep ==
    \/ page = "user" /\ sendQuestion
    \/ page = "part_000" /\ sendQuestion0
    \/ page = "part_002" /\ sendQuestion2
    \/ AskClick1

IsPrompt(text) == text \in {PromptPassword, PromptQuestion}

\* nothing but a prompt message was shown: no request, no history entry, no
\* field touched
OnlyPrompted ==
    /\ requests' = requests
    /\ UNCHANGED <<conversationHistory, pushed, chatFields, reads>>
    /\ IF page = "part_001"
       THEN IsPrompt(answerOutput') /\ messagesEl' = messagesEl
       ELSE /\ Len(messagesEl') = Len(messagesEl) + 1
            /\ SubSeq(messagesEl', 1, Len(messagesEl)) = messagesEl
            /\ messagesEl'[Len(messagesEl')].kind = "bot"
            /\ IsPrompt(messagesEl'[Len(messagesEl')].text)
            /\ answerOutput' = answerOutput

\* C3 as stated: whenever the password field or the question field is empty
\* after trimming, sendQuestion issues no request, adds nothing to the
\* history and only shows a prompt message.
C3_Original ==
    [][(AskStep /\ (Blank(passwordInput) \/ Blank(questionInput)))
         => OnlyPrompted]_vars

\* C3 amended: whenever the password field is empty after trimming, or the
\* question field is empty after trimming and no image is attached,
\* sendQuestion issues no request, adds nothing to the history and only shows
\* a prompt message.
C3_BlockedSubmission ==
    [][(AskStep /\ (\/ Blank(passwordInput)
                    \/ (Blank(questionInput) /\ selectedImageDataUrl = <<>>)))
         => OnlyPrompted]_vars

\* C3 witness: a submission with a password but a blank question and no image
\* was turned away while an image load and an earlier request were under way.
C3_Witness ==
    /\ page = "user"
    /\ messagesEl # <<>>
    /\ messagesEl[Len(messagesEl)].text = PromptQuestion
    /\ ~Blank(passwordInput)
    /\ questionInput = <<" ">>
    /\ selectedImageDataUrl = <<>>
    /\ \E i \in DOMAIN requests : Pending(i)

(* ---------------- claims about failed requests ---------------- *)
\* request i settles in this step
Settles(i) == Pending(i) /\ requests'[i].st # "pending"

NonOk(o) == ~o.neterr /\ ~o.ok

\* the text the page shows after this step: the newest chat row, the answer
\* box, or the admin status box
VisibleText ==
    IF page = "admin" THEN statusOutput
    ELSE IF page = "part_001" THEN answerOutput
    ELSE IF messagesEl = <<>> THEN <<>>
    ELSE messagesEl[Len(messagesEl)].text

Finishes(u) == uploads[u].pc # "finished" /\ uploads'[u].pc = "finished"

\* C4 as stated, read in its favour for a response whose body arrives: for
\* every request the scripts issue, a non-OK response produces a visible
\* failure message that contains the status code.
C4_Original ==
    [][\A i \in DOMAIN requests :
          (Settles(i) /\ NonOk(last') /\ last'.readable)
             => Contains(VisibleText', last'.status)]_vars

\* C4 amended: a non-OK response whose body text can be read produces a
\* failure message containing its status code for every request except the
\* config read at page load and the binary upload attempt; for the base64
\* upload request the message is recorded when the response arrives and is
\* shown, with every other recorded failure, when that uploadFiles call ends.
C4_FailureShowsStatus ==
    [][/\ \A i \in DOMAIN requests :
            (Settles(i) /\ NonOk(last') /\ last'.readable) =>
               IF requests[i].url = "/api/admin/config" /\ requests[i].act = "load"
               THEN TRUE
               ELSE IF requests[i].url = "/api/admin/upload-binary"
               THEN TRUE
               ELSE IF requests[i].url = "/api/admin/upload"
               THEN LET u == RunOf(requests[i].by)
                        before == uploads[u].failures
                        after == uploads'[u].failures
                    IN  /\ Len(after) = Len(before) + 1
                        /\ SubSeq(after, 1, Len(before)) = before
                        /\ Contains(after[Len(after)], last'.status)
               ELSE Contains(VisibleText', last'.status)
       /\ \A u \in DOMAIN uploads :
            Finishes(u) =>
               \A k \in DOMAIN uploads'[u].failures :
                  \A n \in DOMAIN uploads'[u].failures[k] :
                     Contains(statusOutput', uploads'[u].failures[k][n])]_vars

\* C4 witness: an upload ended whose fallback request had come back non-OK
\* with a readable body, and the status box shows that status code.
C4_Witness ==
    /\ page = "admin"
    /\ \E u \in DOMAIN uploads :
          /\ uploads[u].pc = "finished"
          /\ \E k \in DOMAIN uploads[u].failures : Contains(uploads[u].failures[k], "404")
    /\ Contains(statusOutput, "404")
    /\ NonOk(last)
    /\ Contains(statusOutput, last.status)

(* ---------------- claims about the requests of one action ---------------- *)
Binary == "/api/admin/upload-binary"
Fallback == "/api/admin/upload"

SameFile(i, j) == requests[i].by = requests[j].by /\ requests[i].file = requests[j].file

\* C5: the base64 request for a file is issued only after the binary request
\* for that same file has failed, never when it succeeded.
C5_FallbackOnlyAfterFailure ==
    \A i \in DOMAIN requests :
       requests[i].url = Fallback =>
          /\ \E j \in 1..(i - 1) :
                /\ requests[j].url = Binary
                /\ SameFile(i, j)
                /\ requests[j].st = "failed"
          /\ \A j \in DOMAIN requests :
                (requests[j].url = Binary /\ SameFile(i, j)) => requests[j].st # "ok"

\* C5 witness: in one upload a file went through the fallback after its binary
\* attempt failed and another file's binary attempt succeeded with no fallback.
C5_Witness ==
    /\ \E i \in DOMAIN requests : requests[i].url = Fallback /\ requests[i].st = "ok"
    /\ \E j \in DOMAIN requests :
          /\ requests[j].url = Binary
          /\ requests[j].st = "ok"
          /\ \A i \in DOMAIN requests : requests[i].url = Fallback => ~SameFile(i, j)
    /\ \E u \in DOMAIN uploads : uploads[u].pc = "finished" /\ uploads[u].done = 2

PendingOf(id) == {i \in DOMAIN requests : Pending(i) /\ requests[i].by = id}

\* C6: at every moment at most one request issued by a given user action
\* (ask, feedback, refresh, upload, save limit, save prompt, download) is
\* outstanding.
C6_OneInFlightPerAction ==
    \A id \in 1..nextId : Cardinality(PendingOf(id)) <= 1

\* C6 witness: the closing status refresh of a two-file upload is outstanding,
\* alone for that upload, after its earlier requests have all settled, while
\* a request of the page load is outstanding as well.
C6_Witness ==
    \E u \in DOMAIN uploads :
       /\ uploads[u].pc = "status"
       /\ Len(uploads[u].files) = 2
       /\ Cardinality(PendingOf(uploads[u].id)) = 1
       /\ Cardinality({i \in DOMAIN requests : requests[i].by = uploads[u].id}) >= 4
       /\ PendingOf(0) # {}

Once == {"ask", "feedback", "refresh", "saveLimit", "savePrompt", "download"}

IssuedBy(id) == {i \in DOMAIN requests : requests[i].by = id}

NoRetries ==
    /\ \A id \in 1..nextId :
          (\E i \in IssuedBy(id) : requests[i].act \in Once) =>
             Cardinality(IssuedBy(id)) = 1
    /\ \A i \in DOMAIN requests :
          requests[i].act = "upload" =>
             LET same == {j \in DOMAIN requests : SameFile(i, j)}
             IN  IF requests[i].file = 0
                 THEN Cardinality(same) = 1
                 ELSE /\ Cardinality(same) <= 2
                      /\ Cardinality({j \in same : requests[j].url = Binary}) = 1
                      /\ Cardinality({j \in same : requests[j].url = Fallback}) <= 1
                      /\ (requests[i].url = Fallback /\ requests[i].st = "failed") =>
                            \A j \in same : j <= i

\* a handler whose fields pass its validation, so that it reaches its fetch
Accepts ==
    \/ /\ AskStep
       /\ ~Blank(passwordInput)
       /\ (~Blank(questionInput) \/ selectedImageDataUrl # <<>>)
    \/ SubmitFeedback /\ requests' # requests
    \/ RefreshClick /\ ~Blank(tokenInput)
    \/ /\ SaveLimitClick
       /\ ~Blank(tokenInput)
       /\ maxAnswerCharsInput' \in {<<>>, <<"0">>, <<"100">>}
    \/ SavePromptClick /\ ~Blank(tokenInput) /\ ~Blank(defaultPromptInput')
    \/ DownloadClick /\ ~Blank(tokenInput)

\* C7: no retries.  Every accepted chat submission, feedback submission, config
\* save, status refresh and download issues exactly one request whatever its
\* outcome; a file of an upload causes one binary request and at most one
\* base64 request, and nothing more after a failed fallback.
C7_NoRetries ==
    [][/\ NoRetries'
       /\ Accepts =>
             /\ Len(requests') = Len(requests) + 1
             /\ requests'[Len(requests')].by = nextId'
             /\ requests'[Len(requests')].act \in Once
       /\ \A i \in DOMAIN requests :
             (Settles(i) /\ requests[i].act \in Once) => Len(requests') = Len(requests)]_vars

\* C7 witness: the fallback request of the first file failed and the upload
\* went on to the second file and ended, with three or four requests in all
\* for the two files.
C7_Witness ==
    \E u \in DOMAIN uploads :
       /\ uploads[u].pc = "finished"
       /\ Len(uploads[u].files) = 2
       /\ \E i \in DOMAIN requests :
             /\ requests[i].by = uploads[u].id
             /\ requests[i].url = Fallback
             /\ requests[i].file = 1
             /\ requests[i].st = "failed"
       /\ \E j \in DOMAIN requests :
             requests[j].by = uploads[u].id /\ requests[j].file = 2

(* ---------------- claims about overlapping chat submissions ---------------- *)
AskPending == \E i \in DOMAIN requests : Pending(i) /\ requests[i].act = "ask"

\* the step leaves every earlier request as it was and issues one more
IssuesOneMore ==
    /\ Len(requests') = Len(requests) + 1
    /\ SubSeq(requests', 1, Len(requests)) = requests
    /\ requests'[Len(requests')].st = "pending"
    /\ requests'[Len(requests')].act = "ask"

OkResponse(o) == ~o.neterr /\ o.ok /\ o.readable

AnswerOf(o) == IF o.content # <<>> THEN o.content ELSE NoResponse

\* the response to request i is rendered as one bot row of its own, in place
\* of the typing row of request i only, and no other request is touched
HandledAlone(i) ==
    /\ \A j \in DOMAIN requests : j # i => requests'[j] = requests[j]
    /\ Len(requests') = Len(requests)
    /\ Len(messagesEl') = Len(RemoveNode(messagesEl, i)) + 1
    /\ SubSeq(messagesEl', 1, Len(messagesEl') - 1) = RemoveNode(messagesEl, i)
    /\ LET row == messagesEl'[Len(messagesEl')]
       IN  /\ row.kind = "bot"
           /\ IF OkResponse(last')
              THEN /\ row.text = AnswerOf(last')
                   /\ row.feedback
                   /\ row.question = requests[i].body.user
              ELSE StartsWith(row.text, FailedPrefix) /\ ~row.feedback

\* C8 as stated: if sendQuestion is triggered again while an earlier chat
\* request is outstanding, a second request is issued immediately and both
\* are outstanding at the same time.
C8_Original ==
    [][(page = "user" /\ sendQuestion /\ AskPending) => IssuesOneMore]_vars

\* C8 amended: if sendQuestion is triggered again, with a non-empty password
\* and a non-empty question or an attached image, while an earlier chat
\* request is outstanding, a second request is issued immediately and both are
\* outstanding; no run of sendQuestion, accepted or not, cancels or changes an
\* earlier request; each response that arrives, in either order, is rendered
\* as its own bot message and handled independently.
C8_NoCancellation ==
    [][/\ (page = "user" /\ sendQuestion) =>
             /\ SubSeq(requests', 1, Len(requests)) = requests
             /\ SubSeq(messagesEl', 1, Len(messagesEl)) = messagesEl
       /\ (/\ page = "user"
           /\ sendQuestion
           /\ AskPending
           /\ ~Blank(passwordInput)
           /\ (~Blank(questionInput) \/ selectedImageDataUrl # <<>>))
             => IssuesOneMore
       /\ \A i \in DOMAIN requests :
             (page = "user" /\ Settles(i) /\ requests[i].act = "ask") => HandledAlone(i)]_vars

BotRowFor(i, k) ==
    /\ messagesEl[k].kind = "bot"
    /\ messagesEl[k].feedback
    /\ messagesEl[k].question = requests[i].body.user

\* C8 witness: two chat requests with different questions were outstanding
\* together; the later one was answered first, and both answers are on the
\* page as separate bot messages.
C8_Witness ==
    /\ page = "user"
    /\ \E i, j \in DOMAIN requests :
          /\ i < j
          /\ requests[i].act = "ask" /\ requests[j].act = "ask"
          /\ requests[i].st = "done" /\ requests[j].st = "done"
          /\ requests[i].body.user # requests[j].body.user
          /\ \E ki, kj \in DOMAIN messagesEl :
                kj < ki /\ BotRowFor(i, ki) /\ BotRowFor(j, kj)

(* ---------------- claims about the attached image ---------------- *)
Carrying == {i \in DOMAIN requests :
                requests[i].act = "ask" /\ requests[i].body.imageDataUrl # Undefined}

AttachedRows == {k \in DOMAIN messagesEl :
                    /\ messagesEl[k].kind = "bot"
                    /\ StartsWith(messagesEl[k].text, ImageAttachedPrefix)}

\* every image that was attached is carried by at most one request
SingleUse ==
    Cardinality(Carrying) + (IF selectedImageDataUrl # <<>> THEN 1 ELSE 0)
        <= Cardinality(AttachedRows)

\* C9: the chat request carries imageDataUrl exactly when an image is attached
\* at the moment the submission is accepted; accepting clears the attachment,
\* so no later request carries it; a blocked submission leaves it in place;
\* with a blank question and an attached image the question sent is
\* "Describe this image.".
C9_ImageSingleUse ==
    [][/\ (page = "user" /\ sendQuestion) =>
             IF /\ ~Blank(passwordInput)
                /\ (~Blank(questionInput) \/ selectedImageDataUrl # <<>>)
             THEN LET sent == requests'[Len(requests')].body
                  IN  /\ Len(requests') = Len(requests) + 1
                      /\ (sent.imageDataUrl # Undefined) <=> (selectedImageDataUrl # <<>>)
                      /\ selectedImageDataUrl # <<>> =>
                            sent.imageDataUrl = selectedImageDataUrl
                      /\ selectedImageDataUrl' = <<>>
                      /\ sent.user = IF ~Blank(questionInput)
                                     THEN Trim(questionInput) ELSE <<"Describe this image.">>
             ELSE /\ UNCHANGED <<selectedImageDataUrl, selectedImageName, imageFileInput>>
                  /\ requests' = requests
       /\ SingleUse']_vars

\* C9 witness: a request with a blank question carried the attached image as
\* "Describe this image.", and the next request carried none.
C9_Witness ==
    /\ page = "user"
    /\ \E i, j \in DOMAIN requests :
          /\ i < j
          /\ requests[i].act = "ask" /\ requests[j].act = "ask"
          /\ requests[i].body.imageDataUrl = <<"data:", "a.png">>
          /\ requests[i].body.user = <<"Describe this image.">>
          /\ requests[j].body.imageDataUrl = Undefined
    /\ Cardinality(AttachedRows) = 1

(* ---------------- claims about what enters the history ---------------- *)
Alternates(h) ==
    /\ Len(h) % 2 = 0
    /\ \A k \in DOMAIN h : h[k].role = IF k % 2 = 1 THEN "user" ELSE "assistant"

\* the history gained the question of request i and, right after it, the
\* answer that came back for it; what was there before only lost entries at
\* the front
GainsExchange(i) ==
    LET n == Len(conversationHistory')
    IN  /\ n >= 2
        /\ conversationHistory'[n - 1] = [role |-> "user", content |-> requests[i].body.user]
        /\ conversationHistory'[n] = [role |-> "assistant", content |-> AnswerOf(last')]
        /\ n - 2 <= Len(conversationHistory)
        /\ SubSeq(conversationHistory', 1, n - 2) = LastN(conversationHistory, n - 2)
        /\ n = Min(Len(conversationHistory) + 2, 20)

\* C10: the history changes only when a chat request succeeds; a failed
\* request leaves it unchanged; a success appends the question immediately
\* followed by its own answer, whatever else is in flight and in whatever
\* order responses arrive; so between handlers the history has even length
\* and alternates user, assistant from a user entry.  The history sent with a
\* request is the history at submission time, to which the question being
\* asked has not been added.
C10_HistoryOnlyOnSuccess ==
    [][/\ conversationHistory' # conversationHistory =>
             \E i \in DOMAIN requests :
                Settles(i) /\ requests[i].act = "ask" /\ OkResponse(last')
       /\ \A i \in DOMAIN requests :
             (Settles(i) /\ requests[i].act = "ask") =>
                IF OkResponse(last') THEN GainsExchange(i)
                ELSE conversationHistory' = conversationHistory
       /\ Alternates(conversationHistory')
       /\ (/\ page = "user"
           /\ sendQuestion
           /\ ~Blank(passwordInput)
           /\ (~Blank(questionInput) \/ selectedImageDataUrl # <<>>))
             => /\ requests'[Len(requests')].body.history = conversationHistory
                /\ conversationHistory' = conversationHistory]_vars

\* C10 witness: past the cap, two requests sent with the same history were
\* answered in reverse order and a third failed; the history ends with the
\* later request's exchange followed by the earlier one's.
C10_Witness ==
    /\ Len(pushed) > 20
    /\ \E i, j, f \in DOMAIN requests :
          /\ i < j
          /\ requests[i].st = "done" /\ requests[j].st = "done" /\ requests[f].st = "done"
          /\ requests[i].out.content = <<"a">>
          /\ OkResponse(requests[j].out) /\ requests[j].out.content = <<>>
          /\ NonOk(requests[f].out)
          /\ requests[i].body.history = requests[j].body.history
          /\ LET n == Len(conversationHistory)
             IN  /\ conversationHistory[n].content = <<"a">>
                 /\ conversationHistory[n - 2].content = <<"No response.">>
                 /\ conversationHistory[n - 1].content = requests[i].body.user
                 /\ conversationHistory[n - 3].content = requests[j].body.user

(* ---------------- claims about the typing indicator ---------------- *)
\* the pages that show a typing row while a chat request is under way
TypingPages == {"user", "part_000", "part_002"}

TypingRows == {k \in DOMAIN messagesEl : messagesEl[k].kind = "typing"}

AsksInFlight == {i \in DOMAIN requests : requests[i].st = "pending" /\ requests[i].act = "ask"}

\* C11: the number of typing indicators displayed always equals the number of
\* chat requests in flight, and each indicator is the one of a request still
\* in flight: one is added when a submission is accepted, the one of a request
\* is removed when that request completes, successfully or not, and with no
\* chat request in flight no indicator remains.
C11_TypingMatchesInFlight ==
    page \in TypingPages =>
       /\ Cardinality(TypingRows) = Cardinality(AsksInFlight)
       /\ {messagesEl[k].node : k \in TypingRows} = AsksInFlight
       /\ AsksInFlight = {} => TypingRows = {}

\* C11 witness: the second of three accepted submissions has failed and its
\* indicator is gone, while the indicators of the first and the third, still
\* in flight, are shown on either side of the failure message.
C11_Witness ==
    /\ page = "user"
    /\ AsksInFlight = {1, 3}
    /\ requests[2].st = "done" /\ requests[2].out.neterr
    /\ Cardinality(TypingRows) = 2
    /\ \E k \in DOMAIN messagesEl, a, b \in TypingRows :
          a < k /\ k < b /\ StartsWith(messagesEl[k].text, FailedPrefix)

(* ---------------- claims about a multi-file upload ---------------- *)
\* the binary attempts made for file f of the uploadFiles call id
AttemptsOf(reqs, id, f) ==
    {j \in DOMAIN reqs : reqs[j].by = id /\ reqs[j].url = Binary /\ reqs[j].file = f}

\* file f of the call id went through, on the binary or on the base64 request
WentThrough(reqs, id, f) ==
    \E j \in DOMAIN reqs :
       /\ reqs[j].by = id
       /\ reqs[j].file = f
       /\ reqs[j].url \in {Binary, Fallback}
       /\ reqs[j].st = "ok"

SummaryMark == "\n\nUploaded: "

\* the text ends with a summary reading done/total
ShowsSummary(text, done, total) ==
    \E p \in DOMAIN text :
       /\ text[p] = SummaryMark
       /\ p + 3 <= Len(text)
       /\ text[p + 1] = ToString(done)
       /\ text[p + 2] = "/"
       /\ text[p + 3] = ToString(total)

\* the accounts of a finished uploadFiles call
Accounted(run, reqs, status) ==
    LET files == DOMAIN run.files
        failed == {f \in files : ~WentThrough(reqs, run.id, f)}
    IN  /\ run.done + Len(run.failures) = Len(run.files)
        /\ \A f \in files : Cardinality(AttemptsOf(reqs, run.id, f)) = 1
        /\ \A f, g \in files :
              f < g => \A a \in AttemptsOf(reqs, run.id, f), b \in AttemptsOf(reqs, run.id, g) :
                          a < b
        /\ run.done = Cardinality(files \ failed)
        /\ Len(run.failures) = Cardinality(failed)
        /\ \A f \in files :
              Cardinality({k \in DOMAIN run.failures : run.failures[k][1] = run.files[f]})
                 = IF f \in failed THEN 1 ELSE 0
        /\ \A k, l \in DOMAIN run.failures :
              k < l => \E f, g \in files :
                          /\ f < g
                          /\ run.failures[k][1] = run.files[f]
                          /\ run.failures[l][1] = run.files[g]
        /\ Contains(status, SummaryMark) <=> failed # {}
        /\ failed # {} => ShowsSummary(status, run.done, Len(run.files))

\* C12: a multi-file upload attempts every selected file once, in selection
\* order, whatever happened to the files before it; when uploadFiles finishes,
\* the successful files plus the recorded failures make up the selected files,
\* each file counted exactly once, and the summary "Uploaded: done/total" is
\* appended to the status if and only if at least one file failed.
C12_UploadAccounts ==
    [][\A u \in DOMAIN uploads :
          Finishes(u) => Accounted(uploads'[u], requests', statusOutput')]_vars

\* C12 witness: a two-file upload has finished whose first file failed on both
\* requests and whose second file went through, and the status shows 1/2.
C12_Witness ==
    /\ page = "admin"
    /\ \E u \in DOMAIN uploads :
          /\ uploads[u].pc = "finished"
          /\ Len(uploads[u].files) = 2
          /\ uploads[u].done = 1
          /\ Len(uploads[u].failures) = 1
          /\ ~WentThrough(requests, uploads[u].id, 1)
          /\ WentThrough(requests, uploads[u].id, 2)
          /\ ShowsSummary(statusOutput, 1, 2)

====
